---- MODULE Spec2Model ----
(***************************************************************************)
(* The PagerDuty hook classes EventsAPiV2Client (hooks/APiV2Client.py) and *)
(* ApiClient (hooks/ApiClient.py) as state machines.                       *)
(*                                                                         *)
(* Python values are tagged records: None, Str(s), Dict(f), exceptions     *)
(* Exc(type, message).  A method is an operator that returns the outcome   *)
(* of one call: what the caller observes (a returned value or a raised     *)
(* exception), the calls that reached the external pagerduty client, and,  *)
(* where the method assigns attributes, the instance afterwards.           *)
(***************************************************************************)
EXTENDS Naturals, Sequences, FiniteSets, TLC

VARIABLES
    events,     \* the EventsAPiV2Client instance of the caller, or NoInstance
    api,        \* the ApiClient instance of the caller, or NoInstance
    api_class,  \* whether the name ApiClient is bound to a class object
    result      \* what the caller observed from its last call

vars == <<events, api, api_class, result>>

(***************************** Python values *******************************)

None == [t |-> "NoneType"]

Str(s) == [t |-> "str", v |-> s]

Dict(f) == [t |-> "dict", v |-> f]

Exc(type, msg) == [t |-> type, v |-> msg]

NoExc == [t |-> "no exception"]

NoInstance == [t |-> "no instance"]

\* the outcome of one call
Return(value, calls) == [outcome |-> "return", value |-> value, calls |-> calls]

Raise(exc, calls) == [outcome |-> "raise", value |-> exc, calls |-> calls]

(************************** attribute lookup ********************************)

\* The names bound by the body of class EventsAPiV2Client.  The class
\* statement names no base class, so besides these an instance has only the
\* attributes of object and the two its __init__ assigns.
EventsAPiV2Client_attrs ==
    {"__init__", "acknowledge_event", "post_event", "prepare_headers",
     "resolve_event", "send_change_event", "send_event", "submit_event",
     "trigger_event"}

\* self.<name> on an instance of class cls: NoExc when the class binds the
\* name, the AttributeError Python raises otherwise.
GetAttr(cls, attrs, name) ==
    IF name \in attrs
    THEN NoExc
    ELSE Exc("AttributeError",
             "'" \o cls \o "' object has no attribute '" \o name \o "'")

(************************** credential store *******************************)

\* The stored credentials: connection id -> password (None: no secret).
Connections ==
    ("c1" :> Str("pw1")) @@ ("c2" :> None) @@ ("c3" :> Str(""))

\* BaseHook.get_connection(conn_id).get_password(), where it can be called.
get_connection(conn_id) ==
    IF conn_id.v \in DOMAIN Connections
    THEN Return(Connections[conn_id.v], <<>>)
    ELSE Raise(Exc("AirflowNotFoundException",
                   "The conn_id `" \o conn_id.v \o "` isn't defined"), <<>>)

(****************************** __init__ ***********************************)

\* __init__ with its final check (lines 31-34) left out.
hook_init_unchecked(cls, attrs, integration_key, pagerduty_events_conn_id) ==
    LET failed(exc) ==
            [self |-> NoInstance, outcome |-> "raise", value |-> exc,
             calls |-> <<>>]
        lookup ==
            IF pagerduty_events_conn_id # None
            THEN GetAttr(cls, attrs, "get_connection")
            ELSE NoExc
        conn ==
            IF pagerduty_events_conn_id # None
            THEN get_connection(pagerduty_events_conn_id)
            ELSE Return(None, <<>>)
        key ==
            IF integration_key # None
            THEN integration_key
            ELSE conn.value
    IN  IF lookup # NoExc THEN failed(lookup)
        ELSE IF conn.outcome = "raise" THEN failed(conn.value)
        ELSE [self |-> [integration_key |-> key, _session |-> None],
              outcome |-> "return", value |-> None, calls |-> <<>>]

\* The body shared, line for line, by EventsAPiV2Client.__init__ and
\* ApiClient.__init__.  self is the instance the caller ends up with:
\* NoInstance when __init__ raises.
hook_init(cls, attrs, integration_key, pagerduty_events_conn_id) ==
    LET failed(exc) ==
            [self |-> NoInstance, outcome |-> "raise", value |-> exc,
             calls |-> <<>>]
        lookup ==
            IF pagerduty_events_conn_id # None
            THEN GetAttr(cls, attrs, "get_connection")
            ELSE NoExc
        conn ==
            IF pagerduty_events_conn_id # None
            THEN get_connection(pagerduty_events_conn_id)
            ELSE Return(None, <<>>)
        key ==
            IF integration_key # None  \* token takes higher priority
            THEN integration_key
            ELSE conn.value
    IN  IF lookup # NoExc THEN failed(lookup)
        ELSE IF conn.outcome = "raise" THEN failed(conn.value)
        ELSE IF key = None
        THEN failed(Exc("AirflowException",
                 "Cannot get token: No valid integration key nor pagerduty_events_conn_id supplied."))
        ELSE [self |-> [integration_key |-> key, _session |-> None],
              outcome |-> "return", value |-> None, calls |-> <<>>]

EventsAPiV2Client_init(integration_key, pagerduty_events_conn_id) ==
    hook_init("EventsAPiV2Client", EventsAPiV2Client_attrs,
              integration_key, pagerduty_events_conn_id)

(************************ the external client ******************************)

\* What the pagerduty library does with a call that reaches it: it answers
\* with {"event": {"id": v}} or raises pagerduty.PagerDutyError(v).
LibBehaviour ==
    {[kind |-> "response", v |-> "E1"],
     [kind |-> "response", v |-> "E2"],
     [kind |-> "PagerDutyError", v |-> "boom"]}

NoLib == [kind |-> "none", v |-> ""]

\* self._session.<op>(args): on None the attribute lookup raises before any
\* call is made; on a session the call reaches the library, which behaves
\* as lib.
SessionCall(session, op, args, lib) ==
    IF session = None
    THEN Raise(Exc("AttributeError",
                   "'NoneType' object has no attribute '" \o op \o "'"), <<>>)
    ELSE IF lib.kind = "PagerDutyError"
    THEN Raise(Exc("PagerDutyError", lib.v), <<[op |-> op, args |-> args]>>)
    ELSE Return(Dict([event |-> Dict([id |-> Str(lib.v)])]),
                <<[op |-> op, args |-> args]>>)

\* try: ... except pagerduty.PagerDutyError as e:
\*     raise AirflowException(f"<prefix>{e}") from e
\* around the outcome r of the try body; any other exception propagates.
ExceptPagerDutyError(r, prefix) ==
    IF r.outcome = "raise" /\ r.value.t = "PagerDutyError"
    THEN Raise(Exc("AirflowException", prefix \o r.value.v), r.calls)
    ELSE r

(*********************** EventsAPiV2Client methods *************************)

acknowledge_event(self, event_id, lib) ==
    LET r == SessionCall(self._session, "acknowledge_event", <<event_id>>, lib)
    IN  ExceptPagerDutyError(
            IF r.outcome = "return" THEN Return(None, r.calls) ELSE r,
            "Failed to acknowledge event: ")

post_event(self, payload, lib) ==
    LET r == SessionCall(self._session, "post_event", <<payload>>, lib)
    IN  ExceptPagerDutyError(
            IF r.outcome = "return"
            THEN Return(r.value.v.event.v.id, r.calls)  \* response['event']['id']
            ELSE r,
            "Failed to post event: ")

\* prepare_headers with another authorization scheme and no content type.
prepare_headers_bearer(self) ==
    Return(Dict("Authorization" :> Str("Bearer " \o self.integration_key.v)),
           <<>>)

prepare_headers(self) ==
    Return(Dict(("Authorization" :> Str("Token token=" \o self.integration_key.v))
                @@ ("Content-Type" :> Str("application/json"))),
           <<>>)

resolve_event(self, event_id, lib) ==
    LET r == SessionCall(self._session, "resolve_event", <<event_id>>, lib)
    IN  ExceptPagerDutyError(
            IF r.outcome = "return" THEN Return(None, r.calls) ELSE r,
            "Failed to resolve event: ")

send_change_event(self, payload, event_type, routing_key, lib) ==
    LET key == IF routing_key = None THEN self.integration_key ELSE routing_key
        r == SessionCall(self._session, "send_event",
                         <<payload, event_type, key>>, lib)
    IN  ExceptPagerDutyError(
            IF r.outcome = "return"
            THEN Return(r.value.v.event.v.id, r.calls)
            ELSE r,
            "Failed to send change event: ")

\* The parameters of send_event, submit_event and trigger_event.
EventFields ==
    {"summary", "severity", "source", "custom_details", "component", "group",
     "class_type", "action", "dedup_key", "images", "links"}

\* The EventPayload of the given fields, absent optionals omitted.
prepare_payload(args) ==
    Dict([f \in {g \in EventFields : args[g] # None} |-> args[f]])

send_event(self, args, lib) ==
    LET lookup == GetAttr("EventsAPiV2Client", EventsAPiV2Client_attrs,
                          "prepare_payload")
    IN  IF lookup # NoExc
        THEN Raise(lookup, <<>>)
        ELSE post_event(self, prepare_payload(args), lib)

submit_event(self, args, lib) == send_event(self, args, lib)

trigger_event(self, args, lib) == send_event(self, args, lib)

(****************************** ApiClient **********************************)

\* The names bound in the module ApiClient.py when the class statement
\* runs: those of its import statements (TYPE_CHECKING is False, so
\* datetime is not among them).
ModuleGlobals ==
    {"annotations", "TYPE_CHECKING", "Any", "pagerduty", "AirflowException",
     "BaseHook"}

\* The first of the names, in evaluation order, that is not bound: the
\* NameError Python raises for it; NoExc when all are bound.
NameLookup(names, bound) ==
    LET unbound == {i \in 1..Len(names) : names[i] \notin bound}
    IN  IF unbound = {}
        THEN NoExc
        ELSE LET i == CHOOSE j \in unbound : \A k \in unbound : j <= k
             IN  Exc("NameError", "name '" \o names[i] \o "' is not defined")

\* The body of the class statement.  Its assignments and defs bind names;
\* the one global it reads is logging (print_debug is False, so line 96 is
\* skipped and line 101 is the read).
ApiClient_classbody ==
    LET e == NameLookup(<<"logging">>, ModuleGlobals)
    IN  IF e = NoExc THEN Return(Str("<class 'ApiClient'>"), <<>>)
        ELSE Raise(e, <<>>)

\* The names the class body binds when it runs to its end (stagger_cooldown
\* and trunc_key are annotations only and bind nothing).
ApiClient_attrs ==
    {"__init__", "after_set_api_key", "api_key", "auth_header", "log",
     "max_http_attempts", "max_network_attempts", "normalize_params",
     "normalize_url", "parent", "permitted_methods", "postprocess",
     "prepare_headers", "print_debug", "request", "retry", "sleep_timer",
     "sleep_timer_base", "timeout"}

permitted_methods == {"GET", "POST", "PUT", "DELETE", "PATCH"}

ApiClient_init(integration_key, pagerduty_events_conn_id) ==
    hook_init("ApiClient", ApiClient_attrs,
              integration_key, pagerduty_events_conn_id)

EmptyDict == Dict(<<>>)

\* def prepare_headers(method, user_headers={}): return user_headers
ApiClient_prepare_headers(method, user_headers) ==
    Return(user_headers, <<>>)

\* The headers a new session of the library carries before the hook
\* touches them.
LibraryDefaultHeaders == Dict("User-Agent" :> Str("pagerduty"))

\* pagerduty.APISession(api_key)
APISession(api_key) ==
    [t |-> "APISession", api_key |-> api_key, headers |-> LibraryDefaultHeaders]

\* dict.update: the entries of new replace or extend those of old
DictUpdate(old, new) == Dict(new.v @@ old.v)

\* self is the instance after the call.
after_set_api_key(self) ==
    LET session == APISession(self.integration_key)
        \* self.prepare_headers(): self is bound to the first parameter,
        \* method, and user_headers takes its default {}
        headers == ApiClient_prepare_headers(self, EmptyDict).value
    IN  [self |-> [self EXCEPT !._session =
                      [session EXCEPT !.headers = DictUpdate(@, headers)]],
         outcome |-> "return", value |-> None, calls |-> <<>>]

\* the property api_key
api_key(self) ==
    IF self._session = None
    THEN Raise(Exc("AttributeError",
                   "'NoneType' object has no attribute 'api_key'"), <<>>)
    ELSE Return(self._session.api_key, <<>>)

\* def request(method, url, **kwargs), called with the given positional
\* arguments (client.request(m, u) passes client, m and u).  The function
\* has two positional parameters and none named self: a call with two
\* positional arguments runs the body, whose first name lookup is self.
ApiClient_request(positional) ==
    IF Len(positional) > 2
    THEN Raise(Exc("TypeError",
                   "ApiClient.request() takes 2 positional arguments but 3 were given"),
               <<>>)
    ELSE Raise(NameLookup(<<"self", "method", "url", "params", "data",
                            "headers", "kwargs">>,
                          {"method", "url", "kwargs"} \cup ModuleGlobals),
               <<>>)

(******************************* inputs ************************************)

Keys == {None, Str(""), Str("k1"), Str("k2")}

ConnIds == {None, Str("c1"), Str("c2"), Str("c3"), Str("unknown")}

EventIds == {Str("E1"), Str("E2")}

Payloads == {Dict([summary |-> Str("disk full")]), EmptyDict}

EventTypes == {Str("trigger"), Str("resolve")}

RoutingKeys == {None, Str("r1")}

EventArgs ==
    {[summary |-> Str("disk full"), severity |-> sev, source |-> Str("host1"),
      custom_details |-> None, component |-> comp, group |-> None,
      class_type |-> None, action |-> act, dedup_key |-> dk,
      images |-> None, links |-> None] :
        sev \in {Str("critical"), Str("info")},
        comp \in {None, Str("db")},
        act \in {Str("trigger"), Str("resolve")},
        dk \in {None, Str("d1")}}

Methods == permitted_methods \cup {"OPTIONS"}

Urls == {"/incidents", "/users"}

(******************************* actions ***********************************)

Observed(cls, op, args, lib, r) ==
    [cls |-> cls, op |-> op, args |-> args, lib |-> lib,
     outcome |-> r.outcome, value |-> r.value, calls |-> r.calls]

NoResult ==
    [cls |-> "", op |-> "", args |-> <<>>, lib |-> NoLib,
     outcome |-> "none", value |-> None, calls |-> <<>>]

\* EventsAPiV2Client(integration_key, pagerduty_events_conn_id)
Construct_Events ==
    /\ events = NoInstance
    /\ \E k \in Keys, c \in ConnIds :
         LET r == EventsAPiV2Client_init(k, c)
         IN  /\ events' = r.self
             /\ result' = Observed("EventsAPiV2Client", "__init__", <<k, c>>,
                                   NoLib, r)
    /\ UNCHANGED <<api, api_class>>

Call_acknowledge_event ==
    /\ events # NoInstance
    /\ \E id \in EventIds, lib \in LibBehaviour :
         result' = Observed("EventsAPiV2Client", "acknowledge_event", <<id>>,
                            lib, acknowledge_event(events, id, lib))
    /\ UNCHANGED <<events, api, api_class>>

Call_post_event ==
    /\ events # NoInstance
    /\ \E p \in Payloads, lib \in LibBehaviour :
         result' = Observed("EventsAPiV2Client", "post_event", <<p>>,
                            lib, post_event(events, p, lib))
    /\ UNCHANGED <<events, api, api_class>>

Call_prepare_headers ==
    /\ events # NoInstance
    /\ result' = Observed("EventsAPiV2Client", "prepare_headers", <<>>,
                          NoLib, prepare_headers(events))
    /\ UNCHANGED <<events, api, api_class>>

Call_resolve_event ==
    /\ events # NoInstance
    /\ \E id \in EventIds, lib \in LibBehaviour :
         result' = Observed("EventsAPiV2Client", "resolve_event", <<id>>,
                            lib, resolve_event(events, id, lib))
    /\ UNCHANGED <<events, api, api_class>>

Call_send_change_event ==
    /\ events # NoInstance
    /\ \E p \in Payloads, et \in EventTypes, rk \in RoutingKeys,
          lib \in LibBehaviour :
         result' = Observed("EventsAPiV2Client", "send_change_event",
                            <<p, et, rk>>, lib,
                            send_change_event(events, p, et, rk, lib))
    /\ UNCHANGED <<events, api, api_class>>

Call_send_event ==
    /\ events # NoInstance
    /\ \E a \in EventArgs, lib \in LibBehaviour :
         result' = Observed("EventsAPiV2Client", "send_event", <<a>>,
                            lib, send_event(events, a, lib))
    /\ UNCHANGED <<events, api, api_class>>

Call_submit_event ==
    /\ events # NoInstance
    /\ \E a \in EventArgs, lib \in LibBehaviour :
         result' = Observed("EventsAPiV2Client", "submit_event", <<a>>,
                            lib, submit_event(events, a, lib))
    /\ UNCHANGED <<events, api, api_class>>

Call_trigger_event ==
    /\ events # NoInstance
    /\ \E a \in EventArgs, lib \in LibBehaviour :
         result' = Observed("EventsAPiV2Client", "trigger_event", <<a>>,
                            lib, trigger_event(events, a, lib))
    /\ UNCHANGED <<events, api, api_class>>

\* from ...hooks.ApiClient import ApiClient: the module body runs, and with
\* it the class statement; the name is bound only if the body completes.
Import_ApiClient ==
    /\ api_class = "undefined"
    /\ LET r == ApiClient_classbody
       IN  /\ api_class' = IF r.outcome = "return" THEN "defined" ELSE "undefined"
           /\ result' = Observed("ApiClient", "class", <<>>, NoLib, r)
    /\ UNCHANGED <<events, api>>

\* ApiClient(integration_key, pagerduty_events_conn_id)
Construct_Api ==
    /\ api_class = "defined"
    /\ api = NoInstance
    /\ \E k \in Keys, c \in ConnIds :
         LET r == ApiClient_init(k, c)
         IN  /\ api' = r.self
             /\ result' = Observed("ApiClient", "__init__", <<k, c>>, NoLib, r)
    /\ UNCHANGED <<events, api_class>>

Call_after_set_api_key ==
    /\ api # NoInstance
    /\ LET r == after_set_api_key(api)
       IN  /\ api' = r.self
           /\ result' = Observed("ApiClient", "after_set_api_key", <<>>,
                                 NoLib, r)
    /\ UNCHANGED <<events, api_class>>

Get_api_key ==
    /\ api # NoInstance
    /\ result' = Observed("ApiClient", "api_key", <<>>, NoLib, api_key(api))
    /\ UNCHANGED <<events, api, api_class>>

\* client.prepare_headers()
Call_ApiClient_prepare_headers ==
    /\ api # NoInstance
    /\ result' = Observed("ApiClient", "prepare_headers", <<>>, NoLib,
                          ApiClient_prepare_headers(api, EmptyDict))
    /\ UNCHANGED <<events, api, api_class>>

\* client.request(method, url), or ApiClient.request(method, url) through
\* the class
Call_request ==
    /\ api # NoInstance
    /\ \E m \in Methods, u \in Urls, bound \in BOOLEAN :
         result' = Observed("ApiClient", "request", <<Str(m), Str(u)>>, NoLib,
                            ApiClient_request(
                                IF bound THEN <<api, Str(m), Str(u)>>
                                ELSE <<Str(m), Str(u)>>))
    /\ UNCHANGED <<events, api, api_class>>

(***************************** specifications ******************************)

Init ==
    /\ events = NoInstance
    /\ api = NoInstance
    /\ api_class = "undefined"
    /\ result = NoResult

\* The program: the class ApiClient never comes to exist, so none of its
\* operations is ever enabled.
Next ==
    \/ Construct_Events
    \/ Call_acknowledge_event
    \/ Call_post_event
    \/ Call_prepare_headers
    \/ Call_resolve_event
    \/ Call_send_change_event
    \/ Call_send_event
    \/ Call_submit_event
    \/ Call_trigger_event
    \/ Import_ApiClient

Spec == Init /\ [][Next]_vars

\* The methods of ApiClient as written, on an instance of the class: the
\* behaviours of a caller for whom the class statement has completed (the
\* name logging bound when ApiClient.py is loaded).
InitApi ==
    /\ events = NoInstance
    /\ api = NoInstance
    /\ api_class = "defined"
    /\ result = NoResult

NextApi ==
    \/ Construct_Api
    \/ Call_after_set_api_key
    \/ Get_api_key
    \/ Call_ApiClient_prepare_headers
    \/ Call_request

SpecApi == InitApi /\ [][NextApi]_vars

(******************************* claims ************************************)

\* the instance of the class the last call was made on
Instance == IF result.cls = "ApiClient" THEN api ELSE events

NonEmptyStr(v) == v # None /\ v.t = "str" /\ v.v # ""

\* the secret the credential store holds for a reference (None: none)
StoredSecret(c) ==
    IF c # None /\ c.v \in DOMAIN Connections THEN Connections[c.v] ELSE None

\* C1: whenever an adapter is constructed from an explicit token and a
\* credential reference of which at least one resolves to a non-empty
\* string, construction succeeds and the resolved token is the explicit
\* token if given, otherwise the secret the credential store holds.
C1_ConstructionResolves ==
    (/\ result.op = "__init__"
     /\ \/ NonEmptyStr(result.args[1])
        \/ NonEmptyStr(StoredSecret(result.args[2])))
    => /\ result.outcome = "return"
       /\ Instance # NoInstance
       /\ Instance.integration_key =
              IF result.args[1] # None THEN result.args[1]
              ELSE StoredSecret(result.args[2])

\* C2: whenever an adapter is constructed with no explicit token and with
\* no credential reference, or a reference to a credential without secret,
\* construction fails with AirflowException and leaves no instance.
C2_ConstructionFails ==
    (/\ result.op = "__init__"
     /\ result.args[1] = None
     /\ \/ result.args[2] = None
        \/ /\ result.args[2].v \in DOMAIN Connections
           /\ Connections[result.args[2].v] = None)
    => /\ result.outcome = "raise"
       /\ result.value.t = "AirflowException"
       /\ Instance = NoInstance

\* C3 as stated: the resolved token of every constructed adapter is a
\* non-empty string.
C3_TokenNonEmpty ==
    /\ events # NoInstance => NonEmptyStr(events.integration_key)
    /\ api # NoInstance => NonEmptyStr(api.integration_key)

\* C3 amended: the resolved token of every constructed adapter is a string,
\* never None, and it may be empty: construction of an EventsAPiV2Client
\* with the empty string as explicit token and no credential reference
\* succeeds with that token.
C3_TokenNotNone ==
    /\ events # NoInstance =>
           events.integration_key # None /\ events.integration_key.t = "str"
    /\ api # NoInstance =>
           api.integration_key # None /\ api.integration_key.t = "str"
    /\ (/\ result.cls = "EventsAPiV2Client"
        /\ result.op = "__init__"
        /\ result.args = <<Str(""), None>>)
       => /\ result.outcome = "return"
          /\ events # NoInstance
          /\ events.integration_key = Str("")

C3_Witness ==
    /\ result.cls = "EventsAPiV2Client"
    /\ result.op = "__init__"
    /\ result.args = <<Str(""), None>>
    /\ events # NoInstance
    /\ events.integration_key = Str("")

FailurePrefixes ==
    {"Failed to acknowledge event: ", "Failed to post event: ",
     "Failed to resolve event: ", "Failed to send change event: "}

\* C4: whenever post_event, acknowledge_event, resolve_event,
\* send_change_event or send_event does not succeed, the caller observes
\* AirflowException and no other kind of error, and its message carries the
\* message of the failure the library raised.
C4_OnlyAirflowException ==
    (/\ result.cls = "EventsAPiV2Client"
     /\ result.op \in {"post_event", "acknowledge_event", "resolve_event",
                       "send_change_event", "send_event"}
     /\ result.outcome = "raise")
    => /\ result.value.t = "AirflowException"
       /\ result.lib.kind = "PagerDutyError" =>
              result.value.v \in {p \o result.lib.v : p \in FailurePrefixes}

\* C5: post_event(payload) on a constructed adapter forwards exactly that
\* payload to the external client's post_event and, when the library
\* answers {"event": {"id": X}}, returns X.
C5_PostEventReturnsId ==
    (/\ result.cls = "EventsAPiV2Client"
     /\ result.op = "post_event"
     /\ result.lib.kind = "response")
    => /\ result.calls = <<[op |-> "post_event", args |-> result.args]>>
       /\ result.outcome = "return"
       /\ result.value = Str(result.lib.v)

\* C6: send_event, submit_event and trigger_event with the same arguments
\* make the same single post_event call, with the EventPayload built from
\* the given fields (absent optionals omitted), and give the same result or
\* error.
C6_AliasesSendPayload ==
    (/\ result.cls = "EventsAPiV2Client"
     /\ result.op \in {"send_event", "submit_event", "trigger_event"})
    => /\ result.calls =
              <<[op |-> "post_event",
                 args |-> <<prepare_payload(result.args[1])>>]>>
       /\ LET r == send_event(events, result.args[1], result.lib)
          IN  /\ result.outcome = r.outcome
              /\ result.value = r.value
              /\ result.calls = r.calls

C7_Headers ==
    (result.cls = "EventsAPiV2Client" /\ result.op = "prepare_headers")
    => /\ result.outcome = "return"
       /\ result.value.t = "dict"
       /\ DOMAIN result.value.v = {"Authorization", "Content-Type"}
       /\ result.value.v["Authorization"] =
              Str("Token token=" \o events.integration_key.v)
       /\ result.value.v["Content-Type"] = Str("application/json")
       /\ result.calls = <<>>

\* C7: prepare_headers() on a constructed EventsAPiV2Client returns exactly
\* the two entries Authorization = "Token token=" + resolved token and
\* Content-Type = "application/json"; the call leaves the instance (token and
\* session) as it was, and a repeated call returns an equal mapping.
C7_PrepareHeaders ==
    /\ []C7_Headers
    /\ [][(result'.cls = "EventsAPiV2Client" /\ result'.op = "prepare_headers")
          => /\ events' = events
             /\ (result.cls = "EventsAPiV2Client" /\ result.op = "prepare_headers")
                => result'.value = result.value]_vars

C7_Witness ==
    /\ result.cls = "EventsAPiV2Client"
    /\ result.op = "prepare_headers"
    /\ events.integration_key = Str("k1")
    /\ result.value.v["Authorization"] = Str("Token token=k1")

C10_ReadyAfterConstruction ==
    /\ [](events # NoInstance => events._session # None)
    /\ []((/\ result.cls = "EventsAPiV2Client"
           /\ result.op \in {"post_event", "acknowledge_event",
                             "resolve_event", "send_change_event",
                             "send_event", "submit_event", "trigger_event"})
          => result.calls # <<>>)
    /\ [][events # NoInstance => events' = events]_vars

====
